---- MODULE Spec2Model ----
(***************************************************************************)
(* Verification model of the image-analysis pipeline:                      *)
(*   - AnalyseImageFunction.lambda_handler  (the BatchConsumer)            *)
(*   - StartModelFunction.lambda_handler    (ensureRunning)                *)
(*   - StopModelFunction.lambda_handler     (ensureStopped + notification) *)
(*   - sqs_poller.lambda_handler            (the BacklogGate)              *)
(*   - fetchObjectsAndCreateSQSMessages.process_documents (queue seeding)  *)
(* Each handler is a small state machine; remote services (Rekognition,    *)
(* Nuxeo, SQS) answer nondeterministically and every call is logged.       *)
(***************************************************************************)
EXTENDS Integers, Sequences, FiniteSets, TLC

VARIABLES
    env,                \* AnalyseImage: set of environment variables that are set
    event,              \* AnalyseImage: event["Records"], the batch of SQS messages
    pc,                 \* AnalyseImage: position of the handler
    i,                  \* AnalyseImage: index of the message the first loop is at
    job,                \* AnalyseImage: locals of the current message (bucket, image, doc_uid, label_names)
    processed_messages, \* AnalyseImage: list of result entries
    failed_messages,    \* AnalyseImage: list of failed messages
    j,                  \* AnalyseImage: index of the failed message the DLQ loop is at
    detectCalls,        \* log of rekognition detect_custom_labels calls
    publishCalls,       \* log of requests.post calls to Nuxeo
    dlqCalls,           \* log of sqs send_message calls to the dead-letter queue
    ret,                \* AnalyseImage: what the invocation returned or raised
    store,              \* the document store: value of assetRecognition:landMark by document
    poller,             \* sqs_poller: the invocation of the BacklogGate
    seed,               \* fetchObjects: the run of process_documents
    backend,            \* lifecycle: status of the Rekognition project version
    inv                 \* lifecycle: the Start/Stop invocations, by invocation id

batchVars == <<env, event, pc, i, job, processed_messages, failed_messages, j,
               detectCalls, publishCalls, dlqCalls, ret, store>>
lifeVars == <<backend, inv>>
otherVars == <<poller, seed>>
vars == <<env, event, pc, i, job, processed_messages, failed_messages, j,
          detectCalls, publishCalls, dlqCalls, ret, store, backend, inv,
          poller, seed>>

-----------------------------------------------------------------------------
(* Bounds *)

MaxBatch == 2

\* Largest approximate message count the queue reports to sqs_poller.
MaxCount == 120

\* Number of lifecycle invocations running at the same time.
MaxConcurrent == 2

\* Longest list of documents handed to process_documents.
MaxDocs == 2

-----------------------------------------------------------------------------
(* AnalyseImageFunction: inputs *)

\* The environment variables lambda_handler reads.
Settings == {"rekognition_model_project_version_arn", "Nuxeo_Endpoint",
             "Nuxeo_User", "Nuxeo_Password", "DLQ_URL"}

\* The environments a deployment is run in: every setting present, or one
\* setting left out.
Environments == {Settings} \cup { Settings \ {s} : s \in Settings }

\* An object key is a sequence of characters.
KeyPlain == <<"a">>
KeyPlus  == <<"a", "+", "b">>
NoKey    == <<>>

\* A message body: json = "invalid" is text json.loads rejects; the other
\* shapes are JSON documents: without "Records", with an empty "Records"
\* list, with a first record that lacks a field, or with a first record
\* carrying bucket name, object key and document uid (each possibly empty).
\* "recordThenInvalid" is a document of two records: the first carries the
\* three fields given, the second carries an empty object key.
Body(shape, b, k, u) == [json |-> shape, bucket |-> b, key |-> k, uid |-> u]

Bodies ==
    { Body("invalid", "", NoKey, ""),
      Body("noRecords", "", NoKey, ""),
      Body("emptyRecords", "", NoKey, ""),
      Body("missingField", "b1", NoKey, "doc-1"),
      Body("record", "", KeyPlain, "doc-1"),
      Body("record", "b1", NoKey, "doc-1"),
      Body("record", "b1", KeyPlain, ""),
      Body("record", "b1", KeyPlain, "doc-1"),
      Body("record", "b1", KeyPlus, "doc-2"),
      Body("recordThenInvalid", "b1", KeyPlain, "doc-1") }

\* An SQS message of the batch: messageId, and body unless the message
\* carries none (hasBody = FALSE).
Message(id, has, body) == [messageId |-> id, hasBody |-> has, body |-> body]

MessagesAt(id) ==
    { Message(id, TRUE, b) : b \in Bodies }
        \cup { Message(id, FALSE, Body("invalid", "", NoKey, "")) }

Batches ==
    UNION { { e \in [1..n -> UNION { MessagesAt(k) : k \in 1..n }] :
                \A k \in 1..n : e[k].messageId = k } : n \in 0..MaxBatch }

\* Answers of rekognition detect_custom_labels: a ClientError, an exception
\* that is no ClientError, or a response with CustomLabels (names in
\* detection order).
DetectResponses ==
    { [raised |-> "ClientError", labels |-> <<>>],
      [raised |-> "EndpointConnectionError", labels |-> <<>>],
      [raised |-> "none", labels |-> <<>>],
      [raised |-> "none", labels |-> <<"cat", "dog">>],
      [raised |-> "none", labels |-> <<"cat", "cat">>] }

\* Answers of requests.post: a ConnectionError/Timeout, or an HTTP status.
PublishResponses ==
    { [raised |-> "ConnectionError", status |-> 0],
      [raised |-> "none", status |-> 200],
      [raised |-> "none", status |-> 500] }

\* requests.post(None, ...) raises MissingSchema before anything is sent.
MissingSchema == [raised |-> "MissingSchema", status |-> 0]

\* Answers of sqs send_message: success, a ClientError (service error), or
\* an exception that is no ClientError (EndpointConnectionError and the like).
DlqResponses == {"ok", "ClientError", "EndpointConnectionError"}

NoJob == [bucket |-> "", image |-> NoKey, doc_uid |-> "", label_names |-> <<>>]
NoRet == [kind |-> "none", status |-> "", error |-> "", processed |-> 0,
          failed |-> 0, results |-> <<>>]

\* The documents the messages name; no landMark value is stored at first.
Docs == {"doc-1", "doc-2"}
EmptyStore == [d \in Docs |-> ""]

\* sqs_poller and process_documents when they are not running.
NoPoll == [urlSet |-> FALSE, reported |-> 0, pc |-> "idle", count |-> "",
           ret |-> "none"]
NoSeed == [documents |-> <<>>, pc |-> "idle", d |-> 1, digest |-> <<"unbound", 0>>,
           sent |-> <<>>, ret |-> "none"]

-----------------------------------------------------------------------------
(* AnalyseImageFunction: pure steps *)

\* A handler that passes the object key on as it came.
DecodeKeyForgotten(k) == k

\* str.replace("+", " ") on the object key.
DecodeKey(k) == [n \in 1..Len(k) |-> IF k[n] = "+" THEN " " ELSE k[n]]

\* ",".join(label_names)
RECURSIVE JoinComma(_)
JoinComma(names) ==
    IF Len(names) = 0 THEN ""
    ELSE IF Len(names) = 1 THEN names[1]
    ELSE names[1] \o "," \o JoinComma(Tail(names))

\* labels_value: the joined names, or "none" for an empty list.
LabelsValue(names) == IF Len(names) = 0 THEN "none" ELSE JoinComma(names)

\* Response.raise_for_status(): raises HTTPError for a 4xx or 5xx status.
RaisesForStatus(status) == status >= 400 /\ status < 600

\* Lines 34-51 for one message: what parsing and validation end in.
\*   "KeyError"        msg["body"] or a field of the record is absent
\*   "JSONDecodeError" json.loads rejects the body
\*   "noRecords"       the payload has no "Records"        (line 37)
\*   "IndexError"      msg_payload["Records"][0] of an empty list
\*   "missingFields"   not all([bucket, image, doc_uid])   (line 48)
\*   "ok"              the job is extracted
ParseOutcome(msg) ==
    IF ~msg.hasBody THEN "KeyError"
    ELSE IF msg.body.json = "invalid" THEN "JSONDecodeError"
    ELSE IF msg.body.json = "noRecords" THEN "noRecords"
    ELSE IF msg.body.json = "emptyRecords" THEN "IndexError"
    ELSE IF msg.body.json = "missingField" THEN "KeyError"
    ELSE IF msg.body.bucket = "" \/ DecodeKey(msg.body.key) = <<>> \/ msg.body.uid = ""
         THEN "missingFields"
    ELSE "ok"

\* The entry appended to processed_messages (lines 104-108).
ResultEntry(doc_uid, label_names, status) ==
    [docUid |-> doc_uid, labels |-> label_names, nuxeo_status |-> status]

\* A payload whose value also carries what the previous request carried.
NuxeoPayloadAccumulating(doc_uid, labels_value) ==
    [xpath |-> "assetRecognition:landMark", save |-> "true",
     value |-> IF publishCalls = <<>> THEN labels_value
               ELSE publishCalls[Len(publishCalls)].value \o "," \o labels_value,
     input |-> doc_uid]

\* nuxeo_payload (lines 75-83): a property-set on a fixed xpath.
NuxeoPayload(doc_uid, labels_value) ==
    [xpath |-> "assetRecognition:landMark", save |-> "true",
     value |-> labels_value, input |-> doc_uid]

\* The document store applying an accepted request: the property named by
\* xpath of the input document takes the value of the request.
ApplyRequest(st, payload) == [st EXCEPT ![payload.input] = payload.value]

\* The report returned at lines 138-143.
Report(processed, failed) ==
    [kind |-> "report", status |-> "200", error |-> "",
     processed |-> Len(processed), failed |-> Len(failed), results |-> processed]

\* The response returned at line 21.
ConfigErrorResponse ==
    [kind |-> "response", status |-> "500", error |-> "DLQ_URL not configured",
     processed |-> 0, failed |-> 0, results |-> <<>>]

\* An exception that leaves lambda_handler.
Raised(exc) ==
    [kind |-> "raised", status |-> "", error |-> exc,
     processed |-> 0, failed |-> 0, results |-> <<>>]

-----------------------------------------------------------------------------
(* AnalyseImageFunction.lambda_handler *)

InitBatch ==
    /\ env \in Environments
    /\ event \in Batches
    /\ pc = "config"
    /\ i = 1
    /\ job = NoJob
    /\ processed_messages = <<>>
    /\ failed_messages = <<>>
    /\ j = 1
    /\ detectCalls = <<>>
    /\ publishCalls = <<>>
    /\ dlqCalls = <<>>
    /\ ret = NoRet
    /\ store = EmptyStore
    /\ backend = "STOPPED"
    /\ inv = <<>>
    /\ poller = NoPoll
    /\ seed = NoSeed

\* Lines 14-27: read the settings. Only DLQ_URL is checked; the model ARN
\* is read with os.environ[...] and raises KeyError when unset; the Nuxeo
\* settings are read with os.environ.get and not checked.
ReadConfig ==
    /\ UNCHANGED <<lifeVars, otherVars>>
    /\ pc = "config"
    /\ IF "DLQ_URL" \notin env
         THEN /\ ret' = ConfigErrorResponse
              /\ pc' = "done"
         ELSE IF "rekognition_model_project_version_arn" \notin env
         THEN /\ ret' = Raised("KeyError")
              /\ pc' = "done"
         ELSE /\ ret' = ret
              /\ pc' = "loop"
    /\ UNCHANGED <<store, env, event, i, job, processed_messages, failed_messages, j,
                   detectCalls, publishCalls, dlqCalls>>

\* A handler whose except branch forgets the append.
FailMessageNoAppend(msg) ==
    /\ failed_messages' = failed_messages
    /\ i' = i + 1
    /\ job' = NoJob
    /\ pc' = "loop"

\* A handler whose except branch leaves the loop (break for continue).
FailMessageBreak(msg) ==
    /\ failed_messages' = Append(failed_messages, msg)
    /\ i' = Len(event) + 1
    /\ job' = NoJob
    /\ pc' = "loop"

\* failed_messages.append(msg); continue
FailMessage(msg) ==
    /\ failed_messages' = Append(failed_messages, msg)
    /\ i' = i + 1
    /\ job' = NoJob
    /\ pc' = "loop"

\* Lines 32-53: take the next message, parse and validate it.
ParseMessage ==
    /\ UNCHANGED <<lifeVars, otherVars>>
    /\ pc = "loop"
    /\ i <= Len(event)
    /\ LET msg == event[i] IN
         IF ParseOutcome(msg) = "ok"
           THEN /\ job' = [bucket |-> msg.body.bucket,
                           image |-> DecodeKey(msg.body.key),
                           doc_uid |-> msg.body.uid,
                           label_names |-> <<>>]
                /\ pc' = "detect"
                /\ UNCHANGED <<failed_messages, i>>
           ELSE FailMessage(msg)
    /\ UNCHANGED <<store, env, event, processed_messages, j, detectCalls, publishCalls,
                   dlqCalls, ret>>

\* A handler that calls detect_custom_labels again after a first failure.
DetectLabelsRetry ==
    /\ UNCHANGED <<lifeVars, otherVars>>
    /\ pc = "detect"
    /\ \E resp \in DetectResponses :
         /\ detectCalls' = Append(detectCalls,
                [msg |-> i, bucket |-> job.bucket, name |-> job.image,
                 resp |-> resp])
         /\ IF resp.raised = "none"
              THEN /\ job' = [job EXCEPT !.label_names = resp.labels]
                   /\ pc' = "publish"
                   /\ UNCHANGED <<failed_messages, i>>
              ELSE IF \E n \in 1..Len(detectCalls) : detectCalls[n].msg = i
              THEN FailMessage(event[i])
              ELSE UNCHANGED <<job, pc, failed_messages, i>>
    /\ UNCHANGED <<store, env, event, processed_messages, j, publishCalls, dlqCalls, ret>>

\* Lines 56-72: one detect_custom_labels call for the current message.
DetectLabels ==
    /\ UNCHANGED <<lifeVars, otherVars>>
    /\ pc = "detect"
    /\ \E resp \in DetectResponses :
         /\ detectCalls' = Append(detectCalls,
                [msg |-> i, bucket |-> job.bucket, name |-> job.image,
                 resp |-> resp])
         /\ IF resp.raised = "none"
              THEN /\ job' = [job EXCEPT !.label_names = resp.labels]
                   /\ pc' = "publish"
                   /\ UNCHANGED <<failed_messages, i>>
              ELSE FailMessage(event[i])
    /\ UNCHANGED <<store, env, event, processed_messages, j, publishCalls, dlqCalls, ret>>

\* A handler that puts the newest result first.
PublishResultPrepend ==
    /\ UNCHANGED <<lifeVars, otherVars>>
    /\ pc = "publish"
    /\ \E answer \in PublishResponses :
       LET resp == IF "Nuxeo_Endpoint" \in env THEN answer ELSE MissingSchema
           nuxeo_payload == NuxeoPayload(job.doc_uid, LabelsValue(job.label_names))
           accepted == resp.raised = "none" /\ ~RaisesForStatus(resp.status)
       IN
         /\ store' = IF accepted THEN ApplyRequest(store, nuxeo_payload) ELSE store
         /\ publishCalls' = Append(publishCalls,
                [msg |-> i, input |-> nuxeo_payload.input,
                 value |-> nuxeo_payload.value, resp |-> resp,
                 stored |-> store'[nuxeo_payload.input]])
         /\ IF accepted
              THEN /\ processed_messages' =
                          <<ResultEntry(job.doc_uid, job.label_names, resp.status)>>
                              \o processed_messages
                   /\ i' = i + 1
                   /\ job' = NoJob
                   /\ pc' = "loop"
                   /\ UNCHANGED failed_messages
              ELSE /\ FailMessage(event[i])
                   /\ UNCHANGED processed_messages
    /\ UNCHANGED <<env, event, j, detectCalls, dlqCalls, ret>>

\* Lines 75-108: one requests.post for the current message, then
\* raise_for_status and the append to processed_messages. With
\* Nuxeo_Endpoint unset the url is None and requests.post raises
\* MissingSchema, a RequestException.
PublishResult ==
    /\ UNCHANGED <<lifeVars, otherVars>>
    /\ pc = "publish"
    /\ \E answer \in PublishResponses :
       LET resp == IF "Nuxeo_Endpoint" \in env THEN answer ELSE MissingSchema
           nuxeo_payload == NuxeoPayload(job.doc_uid, LabelsValue(job.label_names))
           accepted == resp.raised = "none" /\ ~RaisesForStatus(resp.status)
       IN
         /\ store' = IF accepted THEN ApplyRequest(store, nuxeo_payload) ELSE store
         /\ publishCalls' = Append(publishCalls,
                [msg |-> i, input |-> nuxeo_payload.input,
                 value |-> nuxeo_payload.value, resp |-> resp,
                 stored |-> store'[nuxeo_payload.input]])
         /\ IF accepted
              THEN /\ processed_messages' = Append(processed_messages,
                          ResultEntry(job.doc_uid, job.label_names, resp.status))
                   /\ i' = i + 1
                   /\ job' = NoJob
                   /\ pc' = "loop"
                   /\ UNCHANGED failed_messages
              ELSE /\ FailMessage(event[i])
                   /\ UNCHANGED processed_messages
    /\ UNCHANGED <<env, event, j, detectCalls, dlqCalls, ret>>

\* Line 32 with the batch exhausted: go on to the dead-letter loop.
EndOfBatch ==
    /\ UNCHANGED <<lifeVars, otherVars>>
    /\ pc = "loop"
    /\ i > Len(event)
    /\ pc' = "dlq"
    /\ UNCHANGED <<store, env, event, i, job, processed_messages, failed_messages, j,
                   detectCalls, publishCalls, dlqCalls, ret>>

\* A handler that empties failed_messages from its end.
SendToDLQReversed ==
    /\ UNCHANGED <<lifeVars, otherVars>>
    /\ pc = "dlq"
    /\ j <= Len(failed_messages)
    /\ LET failed_msg == failed_messages[Len(failed_messages) - j + 1] IN
         IF ~failed_msg.hasBody
           THEN /\ ret' = Raised("KeyError")
                /\ pc' = "done"
                /\ UNCHANGED <<dlqCalls, j>>
           ELSE \E resp \in DlqResponses :
                  /\ dlqCalls' = Append(dlqCalls,
                         [msg |-> failed_msg.messageId, body |-> failed_msg.body,
                          resp |-> resp])
                  /\ IF resp \in {"ok", "ClientError"}
                       THEN /\ j' = j + 1
                            /\ UNCHANGED <<ret, pc>>
                       ELSE /\ ret' = Raised(resp)
                            /\ pc' = "done"
                            /\ j' = j
    /\ UNCHANGED <<store, env, event, i, job, processed_messages, failed_messages,
                   detectCalls, publishCalls>>

\* Lines 128-136: one send_message for the next failed message. Reading
\* failed_msg['body'] of a message without body raises KeyError; only
\* ClientError is caught, any other exception leaves the handler.
SendToDLQ ==
    /\ UNCHANGED <<lifeVars, otherVars>>
    /\ pc = "dlq"
    /\ j <= Len(failed_messages)
    /\ LET failed_msg == failed_messages[j] IN
         IF ~failed_msg.hasBody
           THEN /\ ret' = Raised("KeyError")
                /\ pc' = "done"
                /\ UNCHANGED <<dlqCalls, j>>
           ELSE \E resp \in DlqResponses :
                  /\ dlqCalls' = Append(dlqCalls,
                         [msg |-> failed_msg.messageId, body |-> failed_msg.body,
                          resp |-> resp])
                  /\ IF resp \in {"ok", "ClientError"}
                       THEN /\ j' = j + 1
                            /\ UNCHANGED <<ret, pc>>
                       ELSE /\ ret' = Raised(resp)
                            /\ pc' = "done"
                            /\ j' = j
    /\ UNCHANGED <<store, env, event, i, job, processed_messages, failed_messages,
                   detectCalls, publishCalls>>

\* Lines 138-143: return the report.
ReturnReport ==
    /\ UNCHANGED <<lifeVars, otherVars>>
    /\ pc = "dlq"
    /\ j > Len(failed_messages)
    /\ ret' = Report(processed_messages, failed_messages)
    /\ pc' = "done"
    /\ UNCHANGED <<store, env, event, i, job, processed_messages, failed_messages, j,
                   detectCalls, publishCalls, dlqCalls>>

NextBatch ==
    \/ ReadConfig
    \/ ParseMessage
    \/ DetectLabels
    \/ PublishResult
    \/ EndOfBatch
    \/ SendToDLQ
    \/ ReturnReport

\* The BatchConsumer alone; no lifecycle invocation runs.
Spec == InitBatch /\ [][NextBatch]_vars

-----------------------------------------------------------------------------
(* AnalyseImageFunction: properties *)

\* Positions in a call log of the calls made for message k.
CallsFor(log, k) == { n \in 1..Len(log) : log[n].msg = k }

\* The message has a body that is JSON with a first record carrying a
\* non-empty bucket name, object key and document uid.
WellFormed(msg) ==
    /\ msg.hasBody
    /\ msg.body.json \in {"record", "recordThenInvalid"}
    /\ msg.body.bucket # ""
    /\ msg.body.key # <<>>
    /\ msg.body.uid # ""

\* Message k went through detection and publication without an error, judged
\* from its own body and from the answers the services gave for it alone.
DetectedOk(k) ==
    \E n \in CallsFor(detectCalls, k) : detectCalls[n].resp.raised = "none"
PublishedOk(k) ==
    \E n \in CallsFor(publishCalls, k) :
        /\ publishCalls[n].resp.raised = "none"
        /\ publishCalls[n].resp.status < 400
Succeeded(k) == WellFormed(event[k]) /\ DetectedOk(k) /\ PublishedOk(k)

\* The result entry message k alone determines.
OwnEntry(k) ==
    LET d == CHOOSE n \in CallsFor(detectCalls, k) : detectCalls[n].resp.raised = "none"
        p == CHOOSE n \in CallsFor(publishCalls, k) : publishCalls[n].resp.raised = "none"
    IN  [docUid |-> event[k].body.uid,
         labels |-> detectCalls[d].resp.labels,
         nuxeo_status |-> publishCalls[p].resp.status]

\* The success list and the failure list the first n messages determine,
\* each message judged on its own.
RECURSIVE OwnSuccesses(_)
OwnSuccesses(n) ==
    IF n = 0 THEN <<>>
    ELSE IF Succeeded(n) THEN Append(OwnSuccesses(n - 1), OwnEntry(n))
    ELSE OwnSuccesses(n - 1)

RECURSIVE OwnFailures(_)
OwnFailures(n) ==
    IF n = 0 THEN <<>>
    ELSE IF Succeeded(n) THEN OwnFailures(n - 1)
    ELSE Append(OwnFailures(n - 1), event[n])

ConfigComplete == {"DLQ_URL", "rekognition_model_project_version_arn"} \subseteq env

\* C1: in every returned report, processed + failed equals the size of the
\* batch and results holds exactly `processed` entries.
C1_ReportCounts ==
    ret.kind = "report" =>
        /\ ret.processed + ret.failed = Len(event)
        /\ Len(ret.results) = ret.processed

C1_Witness ==
    /\ ret.kind = "report"
    /\ ret.processed >= 1
    /\ ret.failed >= 1

\* C2: bulkhead isolation. At every point of the run the success list and the
\* failure list are exactly what each message handled so far yields on its
\* own (its body and the answers given for it), so a failing message changes
\* no other message's outcome; and once the loop is left every message of
\* the batch has been handled.
C2_Bulkhead ==
    /\ i - 1 <= Len(event)
    /\ processed_messages = OwnSuccesses(i - 1)
    /\ failed_messages = OwnFailures(i - 1)
    /\ (pc = "dlq" \/ (pc = "done" /\ ConfigComplete)) => i - 1 = Len(event)

C2_Witness ==
    /\ pc = "dlq"
    /\ Len(event) = 2
    /\ ~Succeeded(1)
    /\ Succeeded(2)
    /\ processed_messages = <<OwnEntry(2)>>
    /\ failed_messages = <<event[1]>>

\* C3 (as claimed): once the invocation has ended, every message classified
\* Failure had its raw body passed unchanged to exactly one dead-letter
\* enqueue attempt, and no message classified Success was forwarded.
C3_DeadLetterRouting ==
    pc = "done" =>
        \A k \in 1..Len(event) :
            IF \E n \in 1..Len(failed_messages) : failed_messages[n].messageId = k
              THEN /\ Cardinality(CallsFor(dlqCalls, k)) = 1
                   /\ \A n \in CallsFor(dlqCalls, k) : dlqCalls[n].body = event[k].body
              ELSE CallsFor(dlqCalls, k) = {}

\* C4 (as claimed): with the configuration in place, whatever the dead-letter
\* enqueues do, the invocation ends by returning the report, and every
\* failed message that has a body got its enqueue attempt.
C4_DlqFailureOnlyLogged ==
    (pc = "done" /\ ConfigComplete) =>
        /\ ret.kind = "report"
        /\ \A n \in 1..Len(failed_messages) :
               failed_messages[n].hasBody =>
                   Cardinality(CallsFor(dlqCalls, failed_messages[n].messageId)) = 1

\* C5 (as claimed): when any required setting is absent no detection call,
\* no publish call and no dead-letter enqueue is issued and no message is
\* classified.
C5_MissingSettingAborts ==
    Settings \ env # {} =>
        /\ detectCalls = <<>>
        /\ publishCalls = <<>>
        /\ dlqCalls = <<>>
        /\ processed_messages = <<>>
        /\ failed_messages = <<>>

\* C6: each message causes at most one detection call and at most one publish
\* call; a message already handled has exactly one detection call if it is
\* well-formed and none otherwise; and a publish call for a message exists
\* only when a detection call for that message has already returned labels.
C6_CallsPerMessage ==
    \A k \in 1..Len(event) :
        /\ Cardinality(CallsFor(detectCalls, k)) <= 1
        /\ Cardinality(CallsFor(publishCalls, k)) <= 1
        /\ k < i => Cardinality(CallsFor(detectCalls, k)) =
                        (IF WellFormed(event[k]) THEN 1 ELSE 0)
        /\ CallsFor(publishCalls, k) # {} => DetectedOk(k)
        /\ (k < i /\ DetectedOk(k)) => CallsFor(publishCalls, k) # {}

C6_Witness ==
    /\ pc = "dlq"
    /\ Len(event) = 2
    /\ ~WellFormed(event[1])
    /\ CallsFor(detectCalls, 1) = {}
    /\ Cardinality(CallsFor(detectCalls, 2)) = 1
    /\ Cardinality(CallsFor(publishCalls, 2)) = 1

\* The labels the detection call of message k returned.
DetectedLabels(k) ==
    detectCalls[CHOOSE n \in CallsFor(detectCalls, k) :
                    detectCalls[n].resp.raised = "none"].resp.labels

\* The value to publish for a label list, written out case by case.
PublishValueOf(labels) ==
    CASE labels = <<>> -> "none"
      [] labels = <<"cat", "dog">> -> "cat,dog"
      [] labels = <<"cat", "cat">> -> "cat,cat"
      [] OTHER -> "?"

\* Publish call n was accepted by the document store.
Accepted(n) ==
    /\ publishCalls[n].resp.raised = "none"
    /\ publishCalls[n].resp.status < 400

\* C12: end-to-end value mapping. Every detection call names the message's
\* bucket and the message's key with each '+' replaced by a space; every
\* publish request targets the message's documentId and carries the detected
\* label names joined by commas, in order and with duplicates kept, or "none"
\* for an empty list.
C12_ValueMapping ==
    /\ \A n \in 1..Len(detectCalls) :
         LET body == event[detectCalls[n].msg].body IN
           /\ detectCalls[n].bucket = body.bucket
           /\ Len(detectCalls[n].name) = Len(body.key)
           /\ \A c \in 1..Len(body.key) :
                detectCalls[n].name[c] = (IF body.key[c] = "+" THEN " " ELSE body.key[c])
    /\ \A n \in 1..Len(publishCalls) :
         /\ publishCalls[n].input = event[publishCalls[n].msg].body.uid
         /\ publishCalls[n].value = PublishValueOf(DetectedLabels(publishCalls[n].msg))

C12_Witness ==
    \E n \in 1..Len(publishCalls) :
        /\ event[publishCalls[n].msg].body.key = <<"a", "+", "b">>
        /\ \E m \in CallsFor(detectCalls, publishCalls[n].msg) :
               detectCalls[m].name = <<"a", " ", "b">>
        /\ DetectedLabels(publishCalls[n].msg) = <<"cat", "dog">>
        /\ publishCalls[n].value = "cat,dog"
        /\ publishCalls[n].input = "doc-2"

\* C13: publication is idempotent. Two accepted publications for the same
\* document with the same detected labels leave the same stored value, the
\* value to publish for those labels; and the store holds for each document
\* what its last accepted publication left.
C13_Idempotent ==
    /\ \A n, m \in 1..Len(publishCalls) :
         ( /\ n < m
           /\ Accepted(n) /\ Accepted(m)
           /\ publishCalls[n].input = publishCalls[m].input
           /\ DetectedLabels(publishCalls[n].msg) = DetectedLabels(publishCalls[m].msg) )
         => /\ publishCalls[m].stored = publishCalls[n].stored
            /\ publishCalls[n].stored = PublishValueOf(DetectedLabels(publishCalls[n].msg))
    /\ \A n \in 1..Len(publishCalls) :
         ( /\ Accepted(n)
           /\ \A m \in (n + 1)..Len(publishCalls) :
                  ~(Accepted(m) /\ publishCalls[m].input = publishCalls[n].input) )
         => store[publishCalls[n].input] = publishCalls[n].stored

C13_Witness ==
    /\ Len(publishCalls) = 2
    /\ Accepted(1) /\ Accepted(2)
    /\ publishCalls[1].input = "doc-1"
    /\ publishCalls[2].input = "doc-1"
    /\ DetectedLabels(1) = <<"cat", "dog">>
    /\ DetectedLabels(2) = <<"cat", "dog">>
    /\ store["doc-1"] = "cat,dog"

\* C14: the success list keeps the order of the batch. Each message handled
\* with success appears exactly once, at the position given by the number of
\* successful messages up to and including it.
C14_OrderPreserved ==
    LET done == { k \in 1..(i - 1) : k <= Len(event) /\ Succeeded(k) }
        Rank(k) == Cardinality({ m \in done : m <= k })
    IN  /\ Len(processed_messages) = Cardinality(done)
        /\ \A k \in done : processed_messages[Rank(k)] = OwnEntry(k)

C14_Witness ==
    /\ Len(event) = 2
    /\ event[1].body.uid = "doc-2"
    /\ event[2].body.uid = "doc-1"
    /\ Len(processed_messages) = 2
    /\ processed_messages[1].docUid = "doc-2"
    /\ processed_messages[2].docUid = "doc-1"

\* Every record of the message's body carries a non-empty bucket name,
\* object key and document uid.
AllRecordsValid(msg) ==
    /\ msg.hasBody
    /\ msg.body.json = "record"
    /\ msg.body.bucket # ""
    /\ msg.body.key # <<>>
    /\ msg.body.uid # ""

\* C15 (as claimed): every handled message that is unparseable, has no or an
\* empty records list, or has any record lacking a non-empty bucket name,
\* object key or document uid is on the list handed to the dead-letter loop,
\* and no result entry exists beyond the messages whose records are all valid.
C15_ValidationRouting ==
    /\ \A k \in 1..(i - 1) :
         (k <= Len(event) /\ ~AllRecordsValid(event[k])) =>
             \E n \in 1..Len(failed_messages) : failed_messages[n].messageId = k
    /\ Len(processed_messages) <=
           Cardinality({ k \in 1..Len(event) : AllRecordsValid(event[k]) })

\* C19: dead-letter forwarding is deferred and ordered. An enqueue attempt
\* exists only once every message of the batch has been classified, and the
\* n-th attempt is for the n-th failed message, so the attempts follow the
\* order of the failed messages in the batch.
C19_DeferredOrdered ==
    /\ dlqCalls # <<>> => (pc \in {"dlq", "done"} /\ i = Len(event) + 1)
    /\ Len(dlqCalls) <= Len(failed_messages)
    /\ \A n \in 1..Len(dlqCalls) : dlqCalls[n].msg = failed_messages[n].messageId
    /\ \A n, m \in 1..Len(dlqCalls) : n < m => dlqCalls[n].msg < dlqCalls[m].msg

C19_Witness ==
    /\ Len(event) = 2
    /\ Len(dlqCalls) = 2
    /\ dlqCalls[1].msg = 1
    /\ dlqCalls[2].msg = 2

-----------------------------------------------------------------------------
(* Model lifecycle: inputs *)

\* Statuses a project version reports.
ModelStates == {"STOPPED", "STARTING", "RUNNING", "STOPPING", "FAILED"}

\* Environment variables StartModelFunction and StopModelFunction read.
StartSettings == {"rekog_model_project_version_arn", "rekog_model_project_arn"}
StopSettings == StartSettings \cup {"Nuxeo_Endpoint", "Nuxeo_UserName", "Nuxeo_Password"}

\* Values of rekog_model_project_version_arn, as split("/") yields them: a
\* project version ARN, and a value with fewer than four segments.
ArnFull == <<"arn:aws:rekognition:r:1:project", "p1", "version", "v1", "1">>
ArnShort == <<"arn:aws:rekognition:r:1:project", "p1">>
Arns == {ArnFull, ArnShort}

\* StartModelFunction.start_project_version: MinInferenceUnits=1
MinInferenceUnits == 1

\* StopModelFunction.lambda_handler: running_states = ['STARTING', 'RUNNING']
RunningStatesOnlyRunning == {"RUNNING"}
running_states == {"STARTING", "RUNNING"}

\* StartModelFunction.lambda_handler: running_status in ['RUNNING', 'STARTING']
AlreadyUpOnlyRunning(status) == status = "RUNNING"
AlreadyUp(status) == status \in {"RUNNING", "STARTING"}

\* Outcomes of a call to the Rekognition control plane.
CallOutcomes == {"ok", "error"}

\* Answers of requests.post in send_nuxeo_request.
NotifyResponses ==
    { [raised |-> "ConnectionError", status |-> 0],
      [raised |-> "none", status |-> 200],
      [raised |-> "none", status |-> 302],
      [raised |-> "none", status |-> 500] }

NoResult == [kind |-> "none", value |-> "", statusCode |-> 0]
Returned(v, code) == [kind |-> "returned", value |-> v, statusCode |-> code]
RaisedOut(exc) == [kind |-> "raised", value |-> exc, statusCode |-> 0]

\* One invocation at its entry: which handler (fn), the settings that are
\* set, the value of the version ARN, whether the event carries a userEmail.
Invocation(f, settings, a, email) ==
    [fn |-> f, set |-> settings, arn |-> a, userEmail |-> email,
     pc |-> "env", running_status |-> "", describes |-> <<>>,
     starts |-> <<>>, stops |-> <<>>, notifySteps |-> 0, notifyRequests |-> 0,
     ret |-> NoResult]

Invocations ==
    { Invocation("start", S, a, FALSE) : S \in SUBSET StartSettings, a \in Arns }
        \cup { Invocation("stop", S, a, e) :
                 S \in SUBSET StopSettings, a \in Arns, e \in BOOLEAN }

\* project_version_arn.split("/")[3]; IndexError with fewer than four segments.
HasVersionName(a) == Len(a) >= 4
get_project_version_name(a) == a[4]

-----------------------------------------------------------------------------
(* Model lifecycle: StartModelFunction and StopModelFunction *)

\* The batch handler is not running in the lifecycle specification.
BatchIdle ==
    /\ env = {}
    /\ event = <<>>
    /\ pc = "idle"
    /\ i = 1
    /\ job = NoJob
    /\ processed_messages = <<>>
    /\ failed_messages = <<>>
    /\ j = 1
    /\ detectCalls = <<>>
    /\ publishCalls = <<>>
    /\ dlqCalls = <<>>
    /\ ret = NoRet
    /\ store = EmptyStore

InitLifecycle ==
    /\ BatchIdle
    /\ poller = NoPoll
    /\ seed = NoSeed
    /\ backend \in ModelStates
    /\ inv \in [{1} -> Invocations]

Set(p, r) == inv' = [inv EXCEPT ![p] = r]

\* StartModelFunction lines 53-55: os.environ[...] raises KeyError for an
\* unset variable; get_project_version_name raises IndexError for a short ARN.
StartGetEnvironment(p) ==
    /\ inv[p].fn = "start"
    /\ inv[p].pc = "env"
    /\ IF ~(StartSettings \subseteq inv[p].set)
         THEN Set(p, [inv[p] EXCEPT !.pc = "done", !.ret = RaisedOut("KeyError")])
         ELSE IF ~HasVersionName(inv[p].arn)
         THEN Set(p, [inv[p] EXCEPT !.pc = "done", !.ret = RaisedOut("IndexError")])
         ELSE Set(p, [inv[p] EXCEPT !.pc = "describe"])
    /\ UNCHANGED <<batchVars, otherVars, backend>>

\* A describe_project_version that logs the error and returns None.
StartDescribeSwallow(p) ==
    /\ inv[p].fn = "start"
    /\ inv[p].pc = "describe"
    /\ \E outcome \in CallOutcomes :
         LET called == [inv[p] EXCEPT
                 !.describes = Append(@, [VersionName |-> get_project_version_name(inv[p].arn)])]
         IN  IF outcome = "error"
               THEN Set(p, [called EXCEPT !.running_status = "None", !.pc = "start"])
               ELSE IF AlreadyUp(backend)
               THEN Set(p, [called EXCEPT !.running_status = backend, !.pc = "done",
                                          !.ret = Returned(backend, 0)])
               ELSE Set(p, [called EXCEPT !.running_status = backend, !.pc = "start"])
    /\ UNCHANGED <<batchVars, otherVars, backend>>

\* StartModelFunction lines 57-64 with describe_project_version (24-36):
\* describe, re-raise on failure, return the status when it is RUNNING or
\* STARTING.
StartDescribe(p) ==
    /\ inv[p].fn = "start"
    /\ inv[p].pc = "describe"
    /\ \E outcome \in CallOutcomes :
         LET called == [inv[p] EXCEPT
                 !.describes = Append(@, [VersionName |-> get_project_version_name(inv[p].arn)])]
         IN  IF outcome = "error"
               THEN Set(p, [called EXCEPT !.running_status = "None", !.pc = "done",
                                          !.ret = RaisedOut("describe")])
               ELSE IF AlreadyUp(backend)
               THEN Set(p, [called EXCEPT !.running_status = backend, !.pc = "done",
                                          !.ret = Returned(backend, 0)])
               ELSE Set(p, [called EXCEPT !.running_status = backend, !.pc = "start"])
    /\ UNCHANGED <<batchVars, otherVars, backend>>

\* StartModelFunction lines 66-67 with start_project_version (38-49): one
\* start request; its exception is re-raised.
StartProjectVersion(p) ==
    /\ inv[p].fn = "start"
    /\ inv[p].pc = "start"
    /\ \E outcome \in CallOutcomes :
         LET called == [inv[p] EXCEPT
                 !.starts = Append(@, [MinInferenceUnits |-> MinInferenceUnits,
                                       backendAt |-> backend])]
         IN  IF outcome = "ok" /\ backend \in {"STOPPED", "FAILED"}
               THEN /\ backend' = "STARTING"
                    /\ Set(p, [called EXCEPT !.pc = "done",
                                             !.ret = Returned("STARTING", 0)])
               ELSE /\ backend' = backend
                    /\ Set(p, [called EXCEPT !.pc = "done", !.ret = RaisedOut("start")])
    /\ UNCHANGED <<batchVars, otherVars>>

\* A handler that requires the two model settings only.
StopGetEnvironmentLax(p) ==
    /\ inv[p].fn = "stop"
    /\ inv[p].pc = "env"
    /\ IF ~(StartSettings \subseteq inv[p].set)
         THEN Set(p, [inv[p] EXCEPT !.pc = "done",
                                    !.ret = Returned("EnvironmentError", 500)])
         ELSE IF ~HasVersionName(inv[p].arn)
         THEN Set(p, [inv[p] EXCEPT !.pc = "done",
                                    !.ret = Returned("An unexpected error occurred.", 500)])
         ELSE Set(p, [inv[p] EXCEPT !.pc = "describe"])
    /\ UNCHANGED <<batchVars, otherVars, backend>>

\* StopModelFunction lines 112-116 and 125-136: every setting is required;
\* a missing one raises EnvironmentError, a short ARN raises IndexError; both
\* are caught by lambda_handler and answered with statusCode 500.
StopGetEnvironment(p) ==
    /\ inv[p].fn = "stop"
    /\ inv[p].pc = "env"
    /\ IF ~(StopSettings \subseteq inv[p].set)
         THEN Set(p, [inv[p] EXCEPT !.pc = "done",
                                    !.ret = Returned("EnvironmentError", 500)])
         ELSE IF ~HasVersionName(inv[p].arn)
         THEN Set(p, [inv[p] EXCEPT !.pc = "done",
                                    !.ret = Returned("An unexpected error occurred.", 500)])
         ELSE Set(p, [inv[p] EXCEPT !.pc = "describe"])
    /\ UNCHANGED <<batchVars, otherVars, backend>>

\* StopModelFunction lines 118-122 with check_model_running_status (37-47)
\* and the test of stop_model_if_running (line 51): a failed describe yields
\* None and goes straight to the notification.
StopCheckStatus(p) ==
    /\ inv[p].fn = "stop"
    /\ inv[p].pc = "describe"
    /\ \E outcome \in CallOutcomes :
         LET called == [inv[p] EXCEPT
                 !.describes = Append(@, [VersionName |-> get_project_version_name(inv[p].arn)])]
         IN  IF outcome = "error"
               THEN Set(p, [called EXCEPT !.running_status = "None", !.pc = "notify"])
               ELSE IF backend \in running_states
               THEN Set(p, [called EXCEPT !.running_status = backend, !.pc = "stop"])
               ELSE Set(p, [called EXCEPT !.running_status = backend, !.pc = "notify"])
    /\ UNCHANGED <<batchVars, otherVars, backend>>

\* stop_model_if_running lines 52-56: one stop request; its exception is
\* logged and dropped.
StopProjectVersion(p) ==
    /\ inv[p].fn = "stop"
    /\ inv[p].pc = "stop"
    /\ \E outcome \in CallOutcomes :
         /\ Set(p, [inv[p] EXCEPT !.stops = Append(@, [backendAt |-> backend]),
                                  !.pc = "notify"])
         /\ IF outcome = "ok" /\ backend \in {"RUNNING", "STARTING"}
              THEN backend' = "STOPPING"
              ELSE backend' = backend
    /\ UNCHANGED <<batchVars, otherVars>>

\* send_nuxeo_request (lines 60-108), called at line 124.
SendNuxeoRequest(p) ==
    /\ inv[p].fn = "stop"
    /\ inv[p].pc = "notify"
    /\ LET reached == [inv[p] EXCEPT !.notifySteps = @ + 1, !.pc = "done"] IN
         IF ~inv[p].userEmail
           THEN Set(p, [reached EXCEPT !.ret = Returned("User email is required", 400)])
           ELSE \E resp \in NotifyResponses :
                  LET sent == [reached EXCEPT !.notifyRequests = @ + 1] IN
                    IF resp.raised # "none" \/ RaisesForStatus(resp.status)
                      THEN Set(p, [sent EXCEPT
                                !.ret = Returned("Failed to send Nuxeo request", 500)])
                      ELSE IF 200 <= resp.status /\ resp.status < 300
                      THEN Set(p, [sent EXCEPT !.ret = Returned("", resp.status)])
                      ELSE Set(p, [sent EXCEPT
                                !.ret = Returned("Unexpected response status code", 500)])
    /\ UNCHANGED <<batchVars, otherVars, backend>>

\* The project version moves on by itself: STARTING ends in RUNNING or
\* FAILED, STOPPING ends in STOPPED.
BackendProgress ==
    /\ \/ backend = "STARTING" /\ backend' \in {"RUNNING", "FAILED"}
       \/ backend = "STOPPING" /\ backend' = "STOPPED"
    /\ UNCHANGED <<batchVars, otherVars, inv>>

NextLifecycle ==
    \/ \E p \in DOMAIN inv : StartGetEnvironment(p)
    \/ \E p \in DOMAIN inv : StartDescribe(p)
    \/ \E p \in DOMAIN inv : StartProjectVersion(p)
    \/ \E p \in DOMAIN inv : StopGetEnvironment(p)
    \/ \E p \in DOMAIN inv : StopCheckStatus(p)
    \/ \E p \in DOMAIN inv : StopProjectVersion(p)
    \/ \E p \in DOMAIN inv : SendNuxeoRequest(p)
    \/ BackendProgress

\* One StartModelFunction or StopModelFunction invocation against the backend.
SpecLifecycle == InitLifecycle /\ [][NextLifecycle]_vars

\* Invocations of a complete deployment: every setting set, a project
\* version ARN.
DeployedInvocations ==
    { Invocation("start", StartSettings, ArnFull, FALSE) }
        \cup { Invocation("stop", StopSettings, ArnFull, e) : e \in BOOLEAN }

InitConcurrent ==
    /\ BatchIdle
    /\ poller = NoPoll
    /\ seed = NoSeed
    /\ backend \in ModelStates
    /\ inv \in [1..MaxConcurrent -> DeployedInvocations]

\* Several invocations against the same backend; the steps of the handlers
\* (each ends with at most one call to the backend) interleave freely.
SpecConcurrent == InitConcurrent /\ [][NextLifecycle]_vars

-----------------------------------------------------------------------------
(* Model lifecycle: properties *)

StartInvocations == { p \in DOMAIN inv : inv[p].fn = "start" }
StopInvocations == { p \in DOMAIN inv : inv[p].fn = "stop" }

\* The describe of invocation p returned a status / failed.
Described(p) == inv[p].running_status \in ModelStates
DescribeFailed(p) == inv[p].describes # <<>> /\ inv[p].running_status = "None"

\* C7: ensureRunning. An invocation whose describe returned RUNNING or
\* STARTING issues no start request and returns that status; one whose
\* describe returned any other status issues exactly one start request by
\* the time it ends, and none before; every start request asks for a minimum
\* capacity of 1.
C7_EnsureRunning ==
    \A p \in StartInvocations :
        /\ Len(inv[p].starts) <= 1
        /\ \A n \in 1..Len(inv[p].starts) : inv[p].starts[n].MinInferenceUnits = 1
        /\ (Described(p) /\ inv[p].running_status \in {"RUNNING", "STARTING"}) =>
               /\ inv[p].starts = <<>>
               /\ inv[p].pc = "done"
               /\ inv[p].ret = Returned(inv[p].running_status, 0)
        /\ (Described(p) /\ inv[p].running_status \notin {"RUNNING", "STARTING"}) =>
               IF inv[p].pc = "done" THEN Len(inv[p].starts) = 1
               ELSE inv[p].pc = "start" /\ inv[p].starts = <<>>

C7_Witness ==
    \E p \in StartInvocations :
        /\ inv[p].pc = "done"
        /\ inv[p].running_status = "STOPPED"
        /\ Len(inv[p].starts) = 1
        /\ inv[p].starts[1].MinInferenceUnits = 1

\* C8: ensureStopped. Once the describe/stop part is over, a stop request has
\* been issued exactly when the described status is RUNNING or STARTING, and
\* then once; for STOPPED, STOPPING and any other status none is issued.
C8_EnsureStopped ==
    \A p \in StopInvocations :
        /\ Len(inv[p].stops) <= 1
        /\ inv[p].stops # <<>> =>
               Described(p) /\ inv[p].running_status \in {"RUNNING", "STARTING"}
        /\ (Described(p) /\ inv[p].pc \in {"notify", "done"}) =>
               Len(inv[p].stops) =
                   (IF inv[p].running_status \in {"RUNNING", "STARTING"} THEN 1 ELSE 0)

C8_Witness ==
    \E p \in StopInvocations :
        /\ inv[p].pc = "done"
        /\ inv[p].running_status = "STARTING"
        /\ Len(inv[p].stops) = 1

\* C9 (as claimed): in a StopModelFunction run with every setting present, a
\* failed describe issues no stop request, and the run ends having reached
\* the notification step exactly once, after the describe step.
C9_StopNonFatal ==
    \A p \in StopInvocations :
        StopSettings \subseteq inv[p].set =>
            /\ DescribeFailed(p) => inv[p].stops = <<>>
            /\ inv[p].notifySteps <= 1
            /\ inv[p].notifySteps = 1 => inv[p].describes # <<>>
            /\ inv[p].pc = "done" => inv[p].notifySteps = 1

\* C10: ensureRunning is fatal on describe failure. When the describe of a
\* StartModelFunction invocation fails, the invocation ends with the
\* exception raised to its caller and has issued no start request.
C10_DescribeFailureFatal ==
    \A p \in StartInvocations :
        DescribeFailed(p) =>
            /\ inv[p].pc = "done"
            /\ inv[p].ret.kind = "raised"
            /\ inv[p].starts = <<>>

C10_Witness ==
    \E p \in StartInvocations :
        /\ DescribeFailed(p)
        /\ inv[p].ret = RaisedOut("describe")

\* C17 (as claimed): under every interleaving of concurrent invocations no
\* start request is issued while the backend is STARTING or RUNNING, and at
\* most one start request is issued to a backend that is STOPPED.
C17_ConcurrentIdempotent ==
    /\ \A p \in StartInvocations : \A n \in 1..Len(inv[p].starts) :
           inv[p].starts[n].backendAt \notin {"STARTING", "RUNNING"}
    /\ Cardinality({ p \in StartInvocations :
                        \E n \in 1..Len(inv[p].starts) :
                            inv[p].starts[n].backendAt = "STOPPED" }) <= 1

\* C20: StopModelFunction with incomplete configuration. An invocation that
\* lacks any of its five settings issues no describe, no stop request and no
\* notification request, and once it has left the configuration step it has
\* ended with a response of statusCode 500.
C20_IncompleteConfiguration ==
    \A p \in StopInvocations :
        ~(StopSettings \subseteq inv[p].set) =>
            /\ inv[p].describes = <<>>
            /\ inv[p].stops = <<>>
            /\ inv[p].notifySteps = 0
            /\ inv[p].notifyRequests = 0
            /\ inv[p].pc \in {"env", "done"}
            /\ inv[p].pc = "done" =>
                   (inv[p].ret.kind = "returned" /\ inv[p].ret.statusCode = 500)

C20_Witness ==
    \E p \in StopInvocations :
        /\ inv[p].set = StopSettings \ {"Nuxeo_Endpoint"}
        /\ inv[p].pc = "done"
        /\ inv[p].ret.statusCode = 500
        /\ inv[p].stops = <<>>
        /\ backend = "RUNNING"

-----------------------------------------------------------------------------
(* sqs_poller.lambda_handler: the BacklogGate *)

\* The queue reports ApproximateNumberOfMessages as a decimal string.
Digits == <<"0", "1", "2", "3", "4", "5", "6", "7", "8", "9">>

RECURSIVE Decimal(_)
Decimal(n) ==
    IF n < 10 THEN <<Digits[n + 1]>>
    ELSE Decimal(n \div 10) \o <<Digits[(n % 10) + 1]>>

\* int(count) of a one-character string.
IntOfChar(c) == CHOOSE d \in 0..9 : Digits[d + 1] = c

\* A handler that reads the last character of the attribute.
ReportedCountLast(attr) == attr[Len(attr)]

\* Line 20: response['Attributes']['ApproximateNumberOfMessages'][0], the
\* first character of the attribute.
ReportedCount(attr) == attr[1]

\* A handler that compares with >= 0.
GateTokenNonNegative(count) == IF IntOfChar(count) >= 0 THEN "incoming" ELSE "stop"

\* Lines 22-25: the token returned.
GateToken(count) == IF IntOfChar(count) > 0 THEN "incoming" ELSE "stop"

\* The other handlers are not running in the poller and seeding specifications.
LifecycleIdle ==
    /\ backend = "STOPPED"
    /\ inv = <<>>

InitPoller ==
    /\ BatchIdle
    /\ LifecycleIdle
    /\ seed = NoSeed
    /\ poller \in { [urlSet |-> u, reported |-> n, pc |-> "start", count |-> "",
                     ret |-> NoResult] : u \in BOOLEAN, n \in 0..MaxCount }

\* Lines 11-20: os.environ['SQS_Queue_URL'] raises KeyError when unset;
\* get_queue_attributes answers or raises; count is the first character.
GetQueueAttributes ==
    /\ poller.pc = "start"
    /\ IF ~poller.urlSet
         THEN poller' = [poller EXCEPT !.pc = "done", !.ret = RaisedOut("KeyError")]
         ELSE \E outcome \in CallOutcomes :
                IF outcome = "error"
                  THEN poller' = [poller EXCEPT !.pc = "done",
                                                !.ret = RaisedOut("ClientError")]
                  ELSE poller' = [poller EXCEPT !.pc = "decide",
                                     !.count = ReportedCount(Decimal(poller.reported))]
    /\ UNCHANGED <<batchVars, lifeVars, seed>>

\* Lines 21-25: compare and return the token.
DecideBacklog ==
    /\ poller.pc = "decide"
    /\ poller' = [poller EXCEPT !.pc = "done",
                                !.ret = Returned(GateToken(poller.count), 0)]
    /\ UNCHANGED <<batchVars, lifeVars, seed>>

NextPoller ==
    \/ GetQueueAttributes
    \/ DecideBacklog

\* One invocation of sqs_poller.lambda_handler.
SpecPoller == InitPoller /\ [][NextPoller]_vars

\* C11 (as claimed): the gate returns "continue" or "stop" and nothing else,
\* "continue" for a reported count of 1 and "stop" for 0.
C11_TokensAsClaimed ==
    poller.ret.kind = "returned" =>
        /\ poller.ret.value \in {"continue", "stop"}
        /\ poller.reported = 1 => poller.ret.value = "continue"
        /\ poller.reported = 0 => poller.ret.value = "stop"

\* C11 (amended): the gate returns "incoming" or "stop" and nothing else,
\* "incoming" for a reported count of 1 and "stop" for 0.
C11_Tokens ==
    poller.ret.kind = "returned" =>
        /\ poller.ret.value \in {"incoming", "stop"}
        /\ poller.reported = 1 => poller.ret.value = "incoming"
        /\ poller.reported = 0 => poller.ret.value = "stop"

C11_Witness ==
    /\ poller.reported = 1
    /\ poller.ret = Returned("incoming", 0)

\* C16: for every reported count n the gate signals continuation (the token
\* "incoming") exactly when n > 0 and stop exactly when n = 0.
C16_GateDecision ==
    poller.ret.kind = "returned" =>
        /\ poller.ret.value = "incoming" <=> poller.reported > 0
        /\ poller.ret.value = "stop" <=> poller.reported = 0

C16_Witness ==
    /\ poller.reported = 100
    /\ poller.ret = Returned("incoming", 0)


-----------------------------------------------------------------------------
(* fetchObjectsAndCreateSQSMessages.process_documents: queue seeding *)

\* A digest is a pair: the property it was read from and the position of the
\* document it belongs to. Unknown is the default "unknown" of .get for an
\* absent digest; Unbound is the local variable digest before any assignment.
Unknown == <<"unknown", 0>>
Unbound == <<"unbound", 0>>

View(t, dg) == [title |-> t, digest |-> dg]

\* The documents that can stand at position k: without picture views, with
\* or without a file-content digest; with a FullHD view after another view;
\* with a FullHD view that has no digest; with views none of which is FullHD.
DocumentsAt(k) ==
    { [uid |-> <<"uid", k>>, views |-> <<>>, file |-> <<"file", k>>],
      [uid |-> <<"uid", k>>, views |-> <<>>, file |-> Unknown],
      [uid |-> <<"uid", k>>,
       views |-> <<View("Thumbnail", <<"thumb", k>>), View("FullHD", <<"view", k>>)>>,
       file |-> <<"file", k>>],
      [uid |-> <<"uid", k>>, views |-> <<View("FullHD", Unknown)>>,
       file |-> <<"file", k>>],
      [uid |-> <<"uid", k>>, views |-> <<View("Thumbnail", <<"thumb", k>>)>>,
       file |-> <<"file", k>>] }

DocumentLists ==
    UNION { { l \in [1..n -> UNION { DocumentsAt(k) : k \in 1..n }] :
                \A k \in 1..n : l[k].uid = <<"uid", k>> } : n \in 0..MaxDocs }

\* Answers of sqs.send_message.
SendOutcomes == {"ok", "error"}

\* Lines 41-47: the value of the local variable digest after the if/else of
\* one document, given its value before. With picture views the first FullHD
\* view assigns it and a list without FullHD view leaves it as it was;
\* without picture views the file-content digest assigns it.
DigestAfter(document, digest) ==
    IF document.views # <<>>
      THEN LET full == SelectSeq(document.views, LAMBDA v : v.title = "FullHD") IN
             IF full # <<>> THEN full[1].digest ELSE digest
      ELSE document.file

\* Line 54: f"nike-binary/{digest}"
BinaryKey(digest) == <<"nike-binary/", digest>>

InitSeed ==
    /\ BatchIdle
    /\ LifecycleIdle
    /\ poller = NoPoll
    /\ seed \in { [documents |-> l, pc |-> "select", d |-> 1, digest |-> Unbound,
                   sent |-> <<>>, ret |-> "none"] : l \in DocumentLists }

\* Lines 40-47: the next document of the for loop and its if/else.
SelectDigest ==
    /\ seed.pc = "select"
    /\ seed.d <= Len(seed.documents)
    /\ seed' = [seed EXCEPT !.digest = DigestAfter(seed.documents[seed.d], seed.digest),
                            !.pc = "check"]
    /\ UNCHANGED <<batchVars, lifeVars, poller>>

\* Lines 49-52: reading digest raises UnboundLocalError when it was never
\* assigned; "unknown" skips the document.
CheckDigest ==
    /\ seed.pc = "check"
    /\ seed' = IF seed.digest = Unbound
                 THEN [seed EXCEPT !.pc = "done", !.ret = "UnboundLocalError"]
                 ELSE IF seed.digest = Unknown
                 THEN [seed EXCEPT !.pc = "select", !.d = @ + 1]
                 ELSE [seed EXCEPT !.pc = "send"]
    /\ UNCHANGED <<batchVars, lifeVars, poller>>

\* Lines 54-81: one send_message for the document; its exception is logged.
SendSeedMessage ==
    /\ seed.pc = "send"
    /\ \E outcome \in SendOutcomes :
         seed' = [seed EXCEPT
                    !.sent = Append(@, [doc |-> seed.d,
                                        uid |-> seed.documents[seed.d].uid,
                                        key |-> BinaryKey(seed.digest),
                                        resp |-> outcome]),
                    !.pc = "select", !.d = @ + 1]
    /\ UNCHANGED <<batchVars, lifeVars, poller>>

\* The for loop is exhausted: process_documents returns.
EndOfDocuments ==
    /\ seed.pc = "select"
    /\ seed.d > Len(seed.documents)
    /\ seed' = [seed EXCEPT !.pc = "done", !.ret = "returned"]
    /\ UNCHANGED <<batchVars, lifeVars, poller>>

NextSeed ==
    \/ SelectDigest
    \/ CheckDigest
    \/ SendSeedMessage
    \/ EndOfDocuments

\* One call of process_documents.
SpecSeed == InitSeed /\ [][NextSeed]_vars

\* The digest the document itself provides: of its first FullHD view when it
\* has picture views, of its file content otherwise; Unknown when absent.
OwnDigest(document) ==
    IF document.views = <<>> THEN document.file
    ELSE IF \E n \in 1..Len(document.views) : document.views[n].title = "FullHD"
    THEN document.views[CHOOSE n \in 1..Len(document.views) :
                            /\ document.views[n].title = "FullHD"
                            /\ \A m \in 1..(n - 1) : document.views[m].title # "FullHD"].digest
    ELSE Unknown

\* C18 (as claimed): every message enqueued carries the uid of its document
\* and the key built from that document's own digest; a document without
\* such a digest enqueues nothing; each document handled with a digest has
\* its message; and no document ends the run of the documents after it.
C18_SeedOwnDigest ==
    /\ \A n \in 1..Len(seed.sent) :
         LET document == seed.documents[seed.sent[n].doc] IN
           /\ seed.sent[n].uid = document.uid
           /\ OwnDigest(document) # Unknown
           /\ seed.sent[n].key = <<"nike-binary/", OwnDigest(document)>>
    /\ \A k \in 1..Len(seed.documents) :
         (k < seed.d /\ OwnDigest(seed.documents[k]) # Unknown) =>
             \E n \in 1..Len(seed.sent) : seed.sent[n].doc = k
    /\ seed.pc = "done" => (seed.ret = "returned" /\ seed.d = Len(seed.documents) + 1)

====
